---- MODULE Spec2Model ----
(***************************************************************************)
(* A model of Lab02Code.py: the one-hop and n-hop mix message formats      *)
(* (mix_client_one_hop, mix_server_one_hop, mix_client_n_hop,              *)
(* mix_server_n_hop) and the wire between the client and a cascade of      *)
(* relays; and analyze_trace, called by an observer on the rounds it has   *)
(* recorded (TraceSpec).                                                   *)
(*                                                                         *)
(* Byte strings are terms:                                                 *)
(*   [k |-> "bytes", v |-> <<b1, ..., bn>>]      concrete bytes            *)
(*   [k |-> "enc", key, iv, body]                AES-CTR output            *)
(*   [k |-> "mac", key, data, n, x]              HMAC-SHA512 digest cut    *)
(*                                               to n bytes, with the set  *)
(*                                               x of bit positions that   *)
(*                                               were flipped on the wire  *)
(*   [k |-> "cut", n, of]                        the first n bytes of a    *)
(*                                               ciphertext                *)
(*   [k |-> "junk", of]                          what unpack reads off a   *)
(*                                               buffer still encrypted    *)
(* SHA-512, HMAC and the AES key stream are idealised: two digests, MACs   *)
(* or key streams are equal only when their inputs are.  AES-CTR keeps what*)
(* the code relies on: it is its own inverse under the same key and IV,    *)
(* it preserves the length, and a bit flipped in the ciphertext is a bit   *)
(* flipped in the plaintext.                                               *)
(*                                                                         *)
(* The elliptic-curve group is the additive group of integers modulo the   *)
(* prime GroupOrder; the point x*G is the number x, so that a scalar       *)
(* multiplication is a multiplication modulo GroupOrder.                   *)
(***************************************************************************)
EXTENDS Integers, Sequences, FiniteSets, TLC

VARIABLES
    fmt,       \* "one" or "n": the packet format of this run
    route,     \* the number of relays of the cascade the client encodes for
    batch,     \* the message list on the wire, the input of the next relay call
    origin,    \* for each message of the batch, what its sender gave the client
    path,      \* the relays that have forwarded the batch, in order
    pc,        \* "collect", "transit", "done" or "failed"
    out,       \* the list returned by the call made with final=True (or one-hop)
    err,       \* the exception raised by the last call, "" if none
    relayLog,  \* the last relay call: relay, final flag, per-message locals
    sampled,   \* the number of ephemeral keys drawn by the client
    trace,     \* the rounds an observer has seen: (senders, receivers) each
    target_number_of_friends,  \* the argument of analyze_trace
    target,    \* the user whose friends analyze_trace looks for
    suspects,  \* the list analyze_trace returned
    analysed   \* analyze_trace has returned

mixVars == <<fmt, route, batch, origin, path, pc, out, err, relayLog, sampled>>

traceVars == <<trace, target_number_of_friends, target, suspects, analysed>>

vars == <<fmt, route, batch, origin, path, pc, out, err, relayLog, sampled,
          trace, target_number_of_friends, target, suspects, analysed>>

(***************************************************************************)
(* Sizes of the packet format.                                             *)
(***************************************************************************)
AddressMax == 256
MessageMax == 1000
AddressCipherLen == 258
MessageCipherLen == 1002
MacLen == 20
DigestLen == 64
IvLen == 16

(***************************************************************************)
(* Bounds of the model.                                                    *)
(***************************************************************************)
MaxHops == 3
MaxBatch == 2

(***************************************************************************)
(* petlib.ec: EcGroup, Bn.                                                 *)
(***************************************************************************)
GroupOrder == 7

Generator == 1

Points == 0 .. (GroupOrder - 1)

NotAPoint == 0 - 1

check_point(p) == p \in Points

\* scalar * point; the scalar is an unreduced big number, the group reduces it
pt_mul(scalar, point) == (scalar * point) % GroupOrder

Zeros(n) == [i \in 1..n |-> 0]

(***************************************************************************)
(* Concrete byte strings: the bytes v followed by pad zero bytes, v never  *)
(* ending in a zero byte, so that equal strings are equal records.         *)
(***************************************************************************)
RECURSIVE LastNonZero(_)
LastNonZero(s) ==
    IF s = <<>> \/ s[Len(s)] # 0 THEN Len(s)
    ELSE LastNonZero(SubSeq(s, 1, Len(s) - 1))

\* the byte string of n bytes that starts with s and ends in zeros
BytesOf(s, n) ==
    LET m == LastNonZero(s)
    IN  [k |-> "bytes", v |-> SubSeq(s, 1, m), pad |-> n - m]

Bytes(s) == BytesOf(s, Len(s))

ByteAt(b, i) == IF i <= Len(b.v) THEN b.v[i] ELSE 0

(***************************************************************************)
(* Lengths and bit flips of terms                                          *)
(***************************************************************************)
RECURSIVE ByteLen(_)
ByteLen(t) ==
    CASE t.k = "bytes" -> Len(t.v) + t.pad
      [] t.k = "mac"   -> t.n
      [] t.k = "enc"   -> ByteLen(t.body)
      [] t.k = "cut"   -> t.n
      [] OTHER         -> 0

FlipByte(b) == IF b % 2 = 0 THEN b + 1 ELSE b - 1

\* the lowest bit of byte number pos changed
RECURSIVE FlipBit(_, _)
FlipBit(t, pos) ==
    CASE t.k = "bytes" ->
           LET n == IF pos > Len(t.v) THEN pos ELSE Len(t.v)
           IN  BytesOf([i \in 1..n |-> IF i = pos THEN FlipByte(ByteAt(t, i))
                                                   ELSE ByteAt(t, i)],
                       ByteLen(t))
      [] t.k = "mac"   -> [t EXCEPT !.x = IF pos \in t.x THEN t.x \ {pos}
                                                          ELSE t.x \cup {pos}]
      [] t.k = "enc"   -> [t EXCEPT !.body = FlipBit(t.body, pos)]
      [] OTHER         -> t

(***************************************************************************)
(* struct.pack / struct.unpack                                             *)
(***************************************************************************)
\* pack("!H<n>s", len(data), data): big-endian length, data padded with
\* zero bytes (or cut) to n bytes
PackEnvelope(data, n) ==
    BytesOf(<<Len(data) \div 256, Len(data) % 256>>
            \o SubSeq(data, 1, IF Len(data) <= n THEN Len(data) ELSE n),
            n + 2)

\* a decoder that ignores the length prefix and strips the zero bytes that
\* end the field
UnpackEnvelopeStripsZeros(buf) ==
    IF buf.k = "bytes"
    THEN LET stored == IF Len(buf.v) > 2 THEN Len(buf.v) - 2 ELSE 0
         IN  BytesOf([i \in 1..stored |-> buf.v[i + 2]], stored)
    ELSE [k |-> "junk", of |-> buf]

\* unpack("!H<n>s", buf) followed by full[:len]; a buffer that is still
\* encrypted decodes to bytes nobody chose
UnpackEnvelope(buf) ==
    IF buf.k = "bytes"
    THEN LET length == ByteAt(buf, 1) * 256 + ByteAt(buf, 2)
             avail  == ByteLen(buf) - 2
             n      == IF length <= avail THEN length ELSE avail
             stored == IF Len(buf.v) - 2 < n THEN Len(buf.v) - 2 ELSE n
         IN  BytesOf([i \in 1..stored |-> buf.v[i + 2]], n)
    ELSE [k |-> "junk", of |-> buf]

\* an IV that does not depend on the position
PositionIvConstant(i) == Zeros(IvLen)

\* pack("H14s", i, b"\x00"*14): native (little-endian) unsigned short, 14 zeros
PositionIv(i) == <<i % 256, i \div 256>> \o Zeros(IvLen - 2)

ZeroIv == Zeros(IvLen)

(***************************************************************************)
(* aes_ctr_enc_dec, sha512, Hmac                                           *)
(***************************************************************************)
aes_ctr_enc_dec(key, iv, input) ==
    IF input.k = "enc" /\ input.key = key /\ input.iv = iv
    THEN input.body
    ELSE [k |-> "enc", key |-> key, iv |-> iv, body |-> input]

\* sha512(shared_element.export()).digest()
sha512(shared_element) == [h |-> "sha512", of |-> shared_element]

\* key_material[lo:hi]
Slice(key_material, lo, hi) == [d |-> key_material, lo |-> lo, hi |-> hi]

HmacKey(key_material) == Slice(key_material, 0, 16)

AddressKey(key_material) == Slice(key_material, 16, 32)

MessageKey(key_material) == Slice(key_material, 32, 48)

\* Bn.from_binary(key_material[48:]): a number read off the digest.  It is
\* not reduced modulo the group order and is no multiple of it, and the map
\* keeps distinct ephemeral keys distinct along a cascade, as SHA-512 does
\* but for a negligible chance.
BlindingFactor(key_material) ==
    LET s == key_material.of
    IN  GroupOrder + ((s * s * s * s) % GroupOrder)

\* a MAC over the last two buffers only, the address and the message
HmacDigestOfPayload(key, parts) ==
    [k |-> "mac", key |-> key,
     data |-> SubSeq(parts, IF Len(parts) > 2 THEN Len(parts) - 1 ELSE 1, Len(parts)),
     n |-> DigestLen, x |-> {}]

\* h = Hmac(b"sha512", key); h.update(part) for each part; h.digest()
HmacDigest(key, parts) ==
    [k |-> "mac", key |-> key, data |-> parts, n |-> DigestLen, x |-> {}]

\* digest[:n]
Truncate(digest, n) ==
    LET m == IF n < ByteLen(digest) THEN n ELSE ByteLen(digest)
    IN  CASE digest.k = "mac"   -> [digest EXCEPT !.n = m]
          [] digest.k = "bytes" ->
               BytesOf(SubSeq(digest.v, 1, IF m < Len(digest.v) THEN m ELSE Len(digest.v)), m)
          [] OTHER              -> [k |-> "cut", n |-> m, of |-> digest]

\* a comparison that looks at the lengths only
secure_compare_lengths(a, b) == ByteLen(a) = ByteLen(b)

secure_compare(a, b) == a = b

(***************************************************************************)
(* The relays of the cascade: relay i holds RelayPrivate(i).               *)
(***************************************************************************)
RelayPrivate(i) == i + 1

RelayPublic(i) == pt_mul(RelayPrivate(i), Generator)

\* the public keys of the first n relays, in cascade order
Cascade(n) == [i \in 1..n |-> RelayPublic(i)]

(***************************************************************************)
(* mix_client_one_hop                                                      *)
(***************************************************************************)
\* the three assertions that open mix_client_one_hop
ClientOneHopAccepts(public_key, address, message) ==
    /\ check_point(public_key)
    /\ Len(address) <= AddressMax
    /\ Len(message) <= MessageMax

\* a one-hop client whose MAC covers the address ciphertext only
mix_client_one_hop_mac_of_address(public_key, address, message, private_key) ==
    LET address_plaintext == PackEnvelope(address, AddressMax)
        message_plaintext == PackEnvelope(message, MessageMax)
        client_public_key == pt_mul(private_key, Generator)
        shared_element    == pt_mul(private_key, public_key)
        key_material      == sha512(shared_element)
        address_cipher    == aes_ctr_enc_dec(AddressKey(key_material), ZeroIv, address_plaintext)
        message_cipher    == aes_ctr_enc_dec(MessageKey(key_material), ZeroIv, message_plaintext)
        expected_mac      == Truncate(HmacDigest(HmacKey(key_material),
                                                 <<address_cipher>>), MacLen)
    IN  [ec_public_key |-> client_public_key, hmac |-> expected_mac,
         address |-> address_cipher, message |-> message_cipher]

mix_client_one_hop(public_key, address, message, private_key) ==
    LET address_plaintext == PackEnvelope(address, AddressMax)
        message_plaintext == PackEnvelope(message, MessageMax)
        client_public_key == pt_mul(private_key, Generator)
        shared_element    == pt_mul(private_key, public_key)
        key_material      == sha512(shared_element)
        address_cipher    == aes_ctr_enc_dec(AddressKey(key_material), ZeroIv, address_plaintext)
        message_cipher    == aes_ctr_enc_dec(MessageKey(key_material), ZeroIv, message_plaintext)
        expected_mac      == Truncate(HmacDigest(HmacKey(key_material),
                                                 <<address_cipher, message_cipher>>), MacLen)
    IN  [ec_public_key |-> client_public_key, hmac |-> expected_mac,
         address |-> address_cipher, message |-> message_cipher]

(***************************************************************************)
(* mix_server_one_hop                                                      *)
(***************************************************************************)
\* the check of elements and lengths
OneHopWellFormed(msg) ==
    /\ check_point(msg.ec_public_key)
    /\ ByteLen(msg.hmac) = MacLen
    /\ ByteLen(msg.address) = AddressCipherLen
    /\ ByteLen(msg.message) = MessageCipherLen

\* the body of the loop for one message: the exception it raises, or its output
DecodeOneHop(private_key, msg) ==
    IF ~OneHopWellFormed(msg)
    THEN [err |-> "Malformed input message", out |-> <<>>, shared |-> NotAPoint,
          forward_key |-> NotAPoint]
    ELSE
    LET shared_element == pt_mul(private_key, msg.ec_public_key)
        key_material   == sha512(shared_element)
        expected_mac   == HmacDigest(HmacKey(key_material), <<msg.address, msg.message>>)
    IN  IF ~secure_compare(msg.hmac, Truncate(expected_mac, MacLen))
        THEN [err |-> "HMAC check failure", out |-> <<>>, shared |-> shared_element,
              forward_key |-> NotAPoint]
        ELSE
        LET address_plaintext == aes_ctr_enc_dec(AddressKey(key_material), ZeroIv, msg.address)
            message_plaintext == aes_ctr_enc_dec(MessageKey(key_material), ZeroIv, msg.message)
        IN  [err |-> "",
             out |-> <<UnpackEnvelope(address_plaintext), UnpackEnvelope(message_plaintext)>>,
             shared |-> shared_element, forward_key |-> NotAPoint]

\* bytes compare as Python compares them: byte by byte, a prefix first
BytesLess(a, b) ==
    LET shorter == IF ByteLen(a) <= ByteLen(b) THEN ByteLen(a) ELSE ByteLen(b)
        stored  == IF Len(a.v) >= Len(b.v) THEN Len(a.v) ELSE Len(b.v)
        common  == IF stored <= shorter THEN stored ELSE shorter
        diff    == {i \in 1..common : ByteAt(a, i) # ByteAt(b, i)}
    IN  IF diff = {} THEN ByteLen(a) < ByteLen(b)
        ELSE LET first == CHOOSE i \in diff : \A j \in diff : i <= j
             IN  ByteAt(a, first) < ByteAt(b, first)

\* (address, message) tuples compare by address, then by message
PairLess(p, q) ==
    \/ BytesLess(p[1], q[1])
    \/ p[1] = q[1] /\ BytesLess(p[2], q[2])

RECURSIVE InsertSorted(_, _)
InsertSorted(p, list) ==
    IF list = <<>> THEN <<p>>
    ELSE IF PairLess(p, list[1]) THEN <<p>> \o list
    ELSE <<list[1]>> \o InsertSorted(p, Tail(list))

\* a relay that returns the pairs in arrival order
sorted_arrival(list) == list

RECURSIVE sorted(_)
sorted(list) ==
    IF list = <<>> THEN <<>>
    ELSE InsertSorted(list[Len(list)], sorted(SubSeq(list, 1, Len(list) - 1)))

\* the position of the first message of the batch that raises, 0 if none does
FirstRaise(results) ==
    LET bad == {p \in 1..Len(results) : results[p].err # ""}
    IN  IF bad = {} THEN 0 ELSE CHOOSE p \in bad : \A q \in bad : p <= q

\* the whole call: the exception that leaves it, or the returned list
mix_server_one_hop(private_key, message_list) ==
    LET results == [p \in 1..Len(message_list) |-> DecodeOneHop(private_key, message_list[p])]
        raised  == FirstRaise(results)
    IN  IF raised # 0
        THEN [err |-> results[raised].err, out |-> <<>>, log |-> SubSeq(results, 1, raised)]
        ELSE [err |-> "",
              out |-> sorted([p \in 1..Len(results) |-> results[p].out]),
              log |-> results]

(***************************************************************************)
(* mix_client_n_hop                                                        *)
(***************************************************************************)
\* a client that forgets the bound on the message
ClientNHopAcceptsAnyMessage(address, message) ==
    Len(address) <= AddressMax

\* the two assertions that open mix_client_n_hop
ClientNHopAccepts(address, message) ==
    /\ Len(address) <= AddressMax
    /\ Len(message) <= MessageMax

\* private_keys[i] of the first loop (1-based): the fresh key, then each key
\* multiplied by the blinding factor of its hop, as a big number
RECURSIVE ClientPrivateKey(_, _, _)
ClientPrivateKey(public_keys, private_key, i) ==
    IF i = 1 THEN private_key
    ELSE LET prev           == ClientPrivateKey(public_keys, private_key, i - 1)
             shared_element == pt_mul(prev, public_keys[i - 1])
             key_material   == sha512(shared_element)
         IN  BlindingFactor(key_material) * prev

\* shared_element of hop i in the first loop
ClientSharedElement(public_keys, private_key, i) ==
    pt_mul(ClientPrivateKey(public_keys, private_key, i), public_keys[i])

\* key_materials[i] of the first loop
ClientKeyMaterial(public_keys, private_key, i) ==
    sha512(ClientSharedElement(public_keys, private_key, i))

\* one pass of the second loop, for the hop with this key material
ClientLayer(key_material, st) ==
    LET hmac_key       == HmacKey(key_material)
        address_cipher == aes_ctr_enc_dec(AddressKey(key_material), ZeroIv, st.address)
        message_cipher == aes_ctr_enc_dec(MessageKey(key_material), ZeroIv, st.message)
        \* hmacs[:counter], each entry replaced by its cipher
        hmacs          == [j \in 1..Len(st.hmacs) |->
                             IF j <= st.counter
                             THEN aes_ctr_enc_dec(hmac_key, PositionIv(j - 1), st.hmacs[j])
                             ELSE st.hmacs[j]]
        expected_mac   == Truncate(HmacDigest(hmac_key,
                              SubSeq(hmacs, 1, st.counter)
                              \o <<address_cipher, message_cipher>>), MacLen)
    IN  [hmacs |-> <<expected_mac>> \o hmacs, address |-> address_cipher,
         message |-> message_cipher, counter |-> st.counter + 1]

\* the second loop from the last hop down to hop i
RECURSIVE ClientLayers(_, _, _, _, _)
ClientLayers(public_keys, private_key, address, message, i) ==
    IF i > Len(public_keys)
    THEN [hmacs |-> <<>>, address |-> PackEnvelope(address, AddressMax),
          message |-> PackEnvelope(message, MessageMax), counter |-> 0]
    ELSE ClientLayer(ClientKeyMaterial(public_keys, private_key, i),
                     ClientLayers(public_keys, private_key, address, message, i + 1))

mix_client_n_hop(public_keys, address, message, private_key) ==
    LET st == ClientLayers(public_keys, private_key, address, message, 1)
    IN  [ec_public_key |-> pt_mul(private_key, Generator), hmacs |-> st.hmacs,
         address |-> st.address, message |-> st.message]

(***************************************************************************)
(* mix_server_n_hop                                                        *)
(***************************************************************************)
\* the outcome of the check of elements and lengths: the conditions are
\* evaluated left to right, and msg.hmacs[0] of an empty list raises IndexError
\* (msg.hmacs is a list in every message of the model)
NHopFormatCheck(msg) ==
    IF ~check_point(msg.ec_public_key) THEN "Malformed input message"
    ELSE IF Len(msg.hmacs) = 0 THEN "IndexError"
    ELSE IF ByteLen(msg.hmacs[1]) # MacLen THEN "Malformed input message"
    ELSE IF ByteLen(msg.address) # AddressCipherLen THEN "Malformed input message"
    ELSE IF ByteLen(msg.message) # MessageCipherLen THEN "Malformed input message"
    ELSE ""

\* private_key * msg.ec_public_key
ServerSharedElement(private_key, msg) == pt_mul(private_key, msg.ec_public_key)

\* a relay that blinds the generator instead of the incoming public key
ServerNewPublicKeyOfGenerator(key_material, msg) ==
    pt_mul(BlindingFactor(key_material), Generator)

\* blinding_factor * msg.ec_public_key
ServerNewPublicKey(key_material, msg) ==
    pt_mul(BlindingFactor(key_material), msg.ec_public_key)

\* the MAC the relay expects in msg.hmacs[0]
ServerExpectedMac(hmac_key, msg) ==
    HmacDigest(hmac_key, Tail(msg.hmacs) \o <<msg.address, msg.message>>)

\* a relay that decrypts and keeps every entry of msg.hmacs, its own included
ServerNewHmacsKeepsAll(hmac_key, msg) ==
    [i \in 1..Len(msg.hmacs) |->
        aes_ctr_enc_dec(hmac_key, PositionIv(i - 1), msg.hmacs[i])]

\* a relay that counts the IVs of msg.hmacs[1:] from 1
ServerNewHmacsIvFromOne(hmac_key, msg) ==
    [i \in 1..(Len(msg.hmacs) - 1) |->
        aes_ctr_enc_dec(hmac_key, PositionIv(i), msg.hmacs[i + 1])]

\* the decrypted msg.hmacs[1:]
ServerNewHmacs(hmac_key, msg) ==
    [i \in 1..(Len(msg.hmacs) - 1) |->
        aes_ctr_enc_dec(hmac_key, PositionIv(i - 1), msg.hmacs[i + 1])]

\* the output for a message that passed the checks
\* a relay that forwards the address and message buffers as it received them
ServerOutputKeepsLayers(msg, new_ec_public_key, new_hmacs, address_plaintext, message_plaintext, final) ==
    IF final
    THEN <<UnpackEnvelope(address_plaintext), UnpackEnvelope(message_plaintext)>>
    ELSE [ec_public_key |-> new_ec_public_key, hmacs |-> new_hmacs,
          address |-> msg.address, message |-> msg.message]

ServerOutput(msg, new_ec_public_key, new_hmacs, address_plaintext, message_plaintext, final) ==
    IF final
    THEN <<UnpackEnvelope(address_plaintext), UnpackEnvelope(message_plaintext)>>
    ELSE [ec_public_key |-> new_ec_public_key, hmacs |-> new_hmacs,
          address |-> address_plaintext, message |-> message_plaintext]

\* the body of the loop for one message: the exception it raises, or its output
DecodeNHop(private_key, msg, final) ==
    IF NHopFormatCheck(msg) # ""
    THEN [err |-> NHopFormatCheck(msg), out |-> <<>>, shared |-> NotAPoint,
          forward_key |-> NotAPoint]
    ELSE
    LET shared_element    == ServerSharedElement(private_key, msg)
        key_material      == sha512(shared_element)
        hmac_key          == HmacKey(key_material)
        new_ec_public_key == ServerNewPublicKey(key_material, msg)
        expected_mac      == ServerExpectedMac(hmac_key, msg)
    IN  IF ~secure_compare(msg.hmacs[1], Truncate(expected_mac, MacLen))
        THEN [err |-> "HMAC check failure", out |-> <<>>, shared |-> shared_element,
              forward_key |-> new_ec_public_key]
        ELSE
        LET new_hmacs         == ServerNewHmacs(hmac_key, msg)
            address_plaintext == aes_ctr_enc_dec(AddressKey(key_material), ZeroIv, msg.address)
            message_plaintext == aes_ctr_enc_dec(MessageKey(key_material), ZeroIv, msg.message)
        IN  [err |-> "",
             out |-> ServerOutput(msg, new_ec_public_key, new_hmacs,
                                  address_plaintext, message_plaintext, final),
             shared |-> shared_element, forward_key |-> new_ec_public_key]

\* a relay that skips the messages that fail and returns the others' outputs
mix_server_n_hop_skipping(private_key, message_list, final) ==
    LET results == [p \in 1..Len(message_list) |->
                      DecodeNHop(private_key, message_list[p], final)]
        good    == SelectSeq(results, LAMBDA r : r.err = "")
    IN  [err |-> "", out |-> [p \in 1..Len(good) |-> good[p].out], log |-> results]

\* a relay that puts each output at the head of out_queue
mix_server_n_hop_prepending(private_key, message_list, final) ==
    LET results == [p \in 1..Len(message_list) |->
                      DecodeNHop(private_key, message_list[p], final)]
        raised  == FirstRaise(results)
    IN  IF raised # 0
        THEN [err |-> results[raised].err, out |-> <<>>, log |-> SubSeq(results, 1, raised)]
        ELSE [err |-> "",
              out |-> [p \in 1..Len(results) |-> results[Len(results) + 1 - p].out],
              log |-> results]

\* the whole call: the exception that leaves it, or the returned list
mix_server_n_hop(private_key, message_list, final) ==
    LET results == [p \in 1..Len(message_list) |->
                      DecodeNHop(private_key, message_list[p], final)]
        raised  == FirstRaise(results)
    IN  IF raised # 0
        THEN [err |-> results[raised].err, out |-> <<>>, log |-> SubSeq(results, 1, raised)]
        ELSE [err |-> "",
              out |-> [p \in 1..Len(results) |-> results[p].out],
              log |-> results]

(***************************************************************************)
(* Inputs                                                                  *)
(***************************************************************************)
Fill(n) == [i \in 1..n |-> 65]

\* (address, message) pairs handed to the client; the last two are too long
Payloads ==
    { <<<<1, 0>>, <<5, 0>>>>, <<<<1, 0>>, <<>>>>, <<<<>>, <<5>>>>,
      <<Fill(AddressMax), Fill(MessageMax)>>,
      <<Fill(AddressMax + 1), <<5>>>>, <<<<2>>, Fill(MessageMax + 1)>> }

\* G.order().random(): the successive draws are distinct non-zero scalars
RandomDraws == <<3, 5, 1, 2, 4, 6>>

\* the bytes whose lowest bit the wire may flip: in an envelope, the low byte
\* of the length prefix
FlipPositions == {2}

(***************************************************************************)
(* The state machine                                                       *)
(***************************************************************************)
NoCall == [relay |-> 0, final |-> FALSE, log |-> <<>>]

Init ==
    /\ fmt \in {"one", "n"}
    /\ route \in 1..MaxHops
    /\ fmt = "one" => route = 1
    /\ batch = <<>>
    /\ origin = <<>>
    /\ path = <<>>
    /\ pc = "collect"
    /\ out = <<>>
    /\ err = ""
    /\ relayLog = NoCall
    /\ sampled = 0
    /\ trace = <<>>
    /\ target_number_of_friends = 0
    /\ target = 0
    /\ suspects = <<>>
    /\ analysed = FALSE

Sender(payload, private_key) ==
    [address |-> Bytes(payload[1]), message |-> Bytes(payload[2]),
     private_key |-> private_key, tamper |-> "", at |-> 0]

\* a client calls mix_client_one_hop and puts the message on the wire
ClientOneHop(public_key, payload) ==
    /\ pc = "collect"
    /\ fmt = "one"
    /\ Len(batch) < MaxBatch
    /\ IF ClientOneHopAccepts(public_key, payload[1], payload[2])
       THEN /\ batch' = Append(batch, mix_client_one_hop(public_key, payload[1],
                                                          payload[2], RandomDraws[sampled + 1]))
            /\ origin' = Append(origin, Sender(payload, RandomDraws[sampled + 1]))
            /\ sampled' = sampled + 1
            /\ err' = ""
       ELSE /\ err' = "AssertionError"
            /\ UNCHANGED <<batch, origin, sampled>>
    /\ UNCHANGED <<fmt, route, path, pc, out, relayLog>>
    /\ UNCHANGED traceVars

\* a client calls mix_client_n_hop with the cascade's public keys
ClientNHop(payload) ==
    /\ pc = "collect"
    /\ fmt = "n"
    /\ Len(batch) < MaxBatch
    /\ IF ClientNHopAccepts(payload[1], payload[2])
       THEN /\ batch' = Append(batch, mix_client_n_hop(Cascade(route), payload[1],
                                                        payload[2], RandomDraws[sampled + 1]))
            /\ origin' = Append(origin, Sender(payload, RandomDraws[sampled + 1]))
            /\ sampled' = sampled + 1
            /\ err' = ""
       ELSE /\ err' = "AssertionError"
            /\ UNCHANGED <<batch, origin, sampled>>
    /\ UNCHANGED <<fmt, route, path, pc, out, relayLog>>
    /\ UNCHANGED traceVars

\* what the wire can do to message msg
Tampered(msg, how, pos) ==
    CASE how = "mac" ->
           IF fmt = "one" THEN [msg EXCEPT !.hmac = FlipBit(msg.hmac, pos)]
           ELSE [msg EXCEPT !.hmacs[1] = FlipBit(msg.hmacs[1], pos)]
      [] how = "later_mac" -> [msg EXCEPT !.hmacs[2] = FlipBit(msg.hmacs[2], pos)]
      [] how = "address" -> [msg EXCEPT !.address = FlipBit(msg.address, pos)]
      [] how = "message" -> [msg EXCEPT !.message = FlipBit(msg.message, pos)]
      [] how = "point" -> [msg EXCEPT !.ec_public_key = NotAPoint]
      [] how = "mac_len" ->
           IF fmt = "one" THEN [msg EXCEPT !.hmac = Truncate(msg.hmac, MacLen - 1)]
           ELSE [msg EXCEPT !.hmacs[1] = Truncate(msg.hmacs[1], MacLen - 1)]
      [] how = "address_len" ->
           [msg EXCEPT !.address = BytesOf(<<>>, AddressCipherLen - 1)]
      [] how = "message_len" ->
           [msg EXCEPT !.message = BytesOf(<<>>, MessageCipherLen + 1)]
      [] how = "no_macs" -> [msg EXCEPT !.hmacs = <<>>]

Flips == {"mac", "later_mac", "address", "message"}

Deformations == {"point", "mac_len", "address_len", "message_len", "no_macs"}

\* origin[p].tamper names the change, origin[p].at the number of relays the
\* message had passed when it was made
TamperCount == Cardinality({p \in 1..Len(origin) : origin[p].tamper # ""})

\* the wire changes one field of one message of the batch
Tamper(p, how, pos) ==
    /\ pc \in {"collect", "transit"}
    /\ p \in 1..Len(batch)
    /\ origin[p].tamper = ""
    /\ TamperCount = 0
    /\ how = "later_mac" => fmt = "n" /\ Len(batch[p].hmacs) >= 2
    /\ how = "mac" /\ fmt = "n" => Len(batch[p].hmacs) >= 1
    /\ how = "mac_len" /\ fmt = "n" => Len(batch[p].hmacs) >= 1
    /\ how = "no_macs" => fmt = "n"
    /\ batch' = [batch EXCEPT ![p] = Tampered(batch[p], how, pos)]
    /\ origin' = [origin EXCEPT ![p].tamper = how, ![p].at = Len(path)]
    /\ UNCHANGED <<fmt, route, path, pc, out, err, relayLog, sampled>>
    /\ UNCHANGED traceVars

\* what the log keeps of each message a call went through
Locals(results) ==
    [p \in 1..Len(results) |-> [err |-> results[p].err, shared |-> results[p].shared,
                                forward_key |-> results[p].forward_key]]

\* the relay calls mix_server_one_hop on the batch it has collected
ServerOneHop ==
    /\ pc = "collect"
    /\ fmt = "one"
    /\ batch # <<>>
    /\ LET r == mix_server_one_hop(RelayPrivate(1), batch)
       IN  /\ err' = r.err
           /\ out' = r.out
           /\ relayLog' = [relay |-> 1, final |-> TRUE, log |-> Locals(r.log)]
           /\ pc' = IF r.err = "" THEN "done" ELSE "failed"
    /\ UNCHANGED <<fmt, route, batch, origin, path, sampled>>
    /\ UNCHANGED traceVars

\* relay i calls mix_server_n_hop on the batch; what it returns with
\* final=False is the next relay's batch
ServerNHop(i, final) ==
    /\ pc \in {"collect", "transit"}
    /\ fmt = "n"
    /\ batch # <<>>
    /\ LET r == mix_server_n_hop(RelayPrivate(i), batch, final)
       IN  /\ err' = r.err
           /\ relayLog' = [relay |-> i, final |-> final, log |-> Locals(r.log)]
           /\ IF r.err # ""
              THEN pc' = "failed" /\ UNCHANGED <<batch, path, out>>
              ELSE IF final
              THEN pc' = "done" /\ out' = r.out /\ UNCHANGED <<batch, path>>
              ELSE pc' = "transit" /\ batch' = r.out /\ path' = Append(path, i)
                   /\ UNCHANGED out
    /\ UNCHANGED <<fmt, route, origin, sampled>>
    /\ UNCHANGED traceVars

Next ==
    \/ \E pk \in {RelayPublic(1), NotAPoint}, payload \in Payloads :
          ClientOneHop(pk, payload)
    \/ \E payload \in Payloads : ClientNHop(payload)
    \/ \E p \in 1..MaxBatch, how \in Flips, pos \in FlipPositions : Tamper(p, how, pos)
    \/ \E p \in 1..MaxBatch, how \in Deformations : Tamper(p, how, 0)
    \/ ServerOneHop
    \/ \E i \in 1..MaxHops, final \in BOOLEAN : ServerNHop(i, final)

Spec == Init /\ [][Next]_vars

(***************************************************************************)
(* analyze_trace, and an observer who records rounds and then calls it     *)
(***************************************************************************)
MaxRounds == 3
MaxFriends == 2

\* the users of the traces
Users == {0, 1, 2}

\* the sender lists and the receiver lists of a round
SenderLists == {<<0, 1>>, <<0, 2>>, <<1, 2>>}

ReceiverLists == {<<0, 1>>, <<0, 2>>, <<1, 2>>, <<2, 2>>}

\* the elements of a list
Seen(list) == {list[i] : i \in 1..Len(list)}

\* a loop that takes the receivers of every round, the target's or not
AllSuspectsOfEveryRound(rounds, user) ==
    LET Walk[i \in 0..Len(rounds)] ==
            IF i = 0 THEN <<>> ELSE Walk[i - 1] \o rounds[i][2]
    IN  Walk[Len(rounds)]

\* the loop over the trace: all_suspects += receivers when target in senders
AllSuspects(rounds, user) ==
    LET Walk[i \in 0..Len(rounds)] ==
            IF i = 0 THEN <<>>
            ELSE IF user \in Seen(rounds[i][1])
                 THEN Walk[i - 1] \o rounds[i][2]
                 ELSE Walk[i - 1]
    IN  Walk[Len(rounds)]

\* Counter(all_suspects): the number of occurrences of each element
Counter(all_suspects) ==
    [x \in Seen(all_suspects) |->
        Cardinality({i \in 1..Len(all_suspects) : all_suspects[i] = x})]

\* the orders in which a dictionary with these keys may list them: the order
\* of insertion in Python 3.7 and later, an order of the hash table before
KeyOrders(keys) ==
    {order \in [1..Cardinality(keys) -> keys] :
        \A a, b \in 1..Cardinality(keys) : a # b => order[a] # order[b]}

\* a most_common that takes the first n keys of the dictionary as they come
most_common_unsorted(counter, n, order) ==
    SubSeq(order, 1, IF n < Len(order) THEN n ELSE Len(order))

\* Counter.most_common(n), keys only: the items sorted by count, highest
\* first, items of equal count in the order the dictionary lists them, and
\* the first n of that
most_common(counter, n, order) ==
    LET Rank(a) == Cardinality({b \in 1..Len(order) :
                       \/ counter[order[b]] > counter[order[a]]
                       \/ counter[order[b]] = counter[order[a]] /\ b < a})
        ranked  == [r \in 1..Len(order) |->
                       order[CHOOSE a \in 1..Len(order) : Rank(a) = r - 1]]
    IN  SubSeq(ranked, 1, IF n < Len(order) THEN n ELSE Len(order))

\* the lists analyze_trace may return, one for each order of the dictionary
analyze_trace(rounds, number_of_friends, user) ==
    LET all_suspects == AllSuspects(rounds, user)
        counter      == Counter(all_suspects)
    IN  {most_common(counter, number_of_friends, order) :
            order \in KeyOrders(DOMAIN counter)}

TraceInit ==
    /\ fmt = "n"
    /\ route = 1
    /\ batch = <<>>
    /\ origin = <<>>
    /\ path = <<>>
    /\ pc = "collect"
    /\ out = <<>>
    /\ err = ""
    /\ relayLog = NoCall
    /\ sampled = 0
    /\ trace = <<>>
    /\ target_number_of_friends \in 0..MaxFriends
    /\ target \in {0, 1}
    /\ suspects = <<>>
    /\ analysed = FALSE

\* the observer records one more round of the mix
ObserveRound(senders, receivers) ==
    /\ ~analysed
    /\ Len(trace) < MaxRounds
    /\ trace' = Append(trace, <<senders, receivers>>)
    /\ UNCHANGED <<target_number_of_friends, target, suspects, analysed>>
    /\ UNCHANGED mixVars

\* the observer calls analyze_trace on what it has recorded
AnalyzeTrace ==
    /\ ~analysed
    /\ suspects' \in analyze_trace(trace, target_number_of_friends, target)
    /\ analysed' = TRUE
    /\ UNCHANGED <<trace, target_number_of_friends, target>>
    /\ UNCHANGED mixVars

TraceNext ==
    \/ \E senders \in SenderLists, receivers \in ReceiverLists :
          ObserveRound(senders, receivers)
    \/ AnalyzeTrace

TraceSpec == TraceInit /\ [][TraceNext]_vars

(***************************************************************************)
(* Properties                                                              *)
(***************************************************************************)
Positions == 1..Len(origin)

\* what the sender of message p gave the client
Sent(p) == <<origin[p].address, origin[p].message>>

\* the relays were called as the cascade prescribes: relay k as the k-th
\* call, with final=True at the last relay of the route and only there
ByTheBook ==
    /\ Len(path) < route
    /\ \A k \in 1..Len(path) : path[k] = k
    /\ pc \in {"done", "failed"} =>
          /\ relayLog.relay = Len(path) + 1
          /\ relayLog.final = (relayLog.relay = route)

\* C1: an untampered batch of client-encoded n-hop messages that goes through
\* the relays of its cascade in order, final=True at the last one only, raises
\* no error at any hop and comes out of the last relay as exactly the
\* (address, message) pairs the senders gave, one per message.
C1_RoundTrip ==
    (fmt = "n" /\ TamperCount = 0 /\ ByTheBook) =>
        /\ pc # "failed"
        /\ pc = "done" => out = [p \in Positions |-> Sent(p)]

C1_Witness ==
    /\ fmt = "n" /\ TamperCount = 0 /\ ByTheBook
    /\ route = 3 /\ pc = "done"
    /\ Len(out) = 1
    /\ ByteLen(out[1][1]) = AddressMax /\ ByteLen(out[1][2]) = MessageMax

\* C2: when one bit of macs[0], of the address ciphertext or of the message
\* ciphertext of a client-encoded n-hop message is changed before the first
\* relay, the first relay's call ends in "HMAC check failure": it forwards
\* nothing and returns no decoded pair.
C2_TamperRejected ==
    \A p \in Positions :
        ( /\ fmt = "n"
          /\ origin[p].tamper \in {"mac", "address", "message"}
          /\ origin[p].at = 0
          /\ relayLog.relay = 1 ) =>
        /\ pc = "failed"
        /\ err = "HMAC check failure"
        /\ out = <<>>
        /\ path = <<>>

C2_Witness ==
    \E p \in Positions :
        /\ fmt = "n" /\ route = 2
        /\ origin[p].tamper = "message" /\ origin[p].at = 0
        /\ relayLog.relay = 1 /\ relayLog.final = FALSE
        /\ err = "HMAC check failure"

ServerErrors == {"Malformed input message", "HMAC check failure", "IndexError"}

Range(list) == {list[i] : i \in 1..Len(list)}

IsSorted(list) == \A i \in 1..(Len(list) - 1) : ~PairLess(list[i + 1], list[i])

\* C4: the list of pairs the final relay returns for a batch of n-hop
\* messages is sorted lexicographically by the decoded tuple.
C4_FinalOutputSorted ==
    (fmt = "n" /\ TamperCount = 0 /\ ByTheBook /\ pc = "done") => IsSorted(out)

Count(list, x) == Cardinality({i \in 1..Len(list) : list[i] = x})

ArrivalOrders(n) == {f \in [1..n -> 1..n] : \A i, j \in 1..n : f[i] = f[j] => i = j}

\* C5: for a batch of valid one-hop messages mix_server_one_hop returns the
\* decoded pairs of the batch, each as often as it was sent, sorted by the
\* tuple, and returns the same list for every arrival order of the batch.
C5_OneHopSortedBatch ==
    (fmt = "one" /\ pc = "done") =>
        /\ Len(out) = Len(batch)
        /\ \A p \in Positions : Count(out, Sent(p)) = Count([q \in Positions |-> Sent(q)], Sent(p))
        /\ IsSorted(out)
        /\ \A f \in ArrivalOrders(Len(batch)) :
              mix_server_one_hop(RelayPrivate(1), [i \in 1..Len(batch) |-> batch[f[i]]]).out = out

C5_Witness ==
    /\ fmt = "one" /\ pc = "done"
    /\ Len(batch) = MaxBatch
    /\ out[1] = Sent(Len(batch))
    /\ out[1] # out[2]

\* C6: a message made by mix_client_n_hop for N relays carries N MAC entries,
\* and N - k entries once k relays have forwarded it: the MAC list of every
\* message on the wire is as long as the number of relays not yet traversed.
C6_MacListLength ==
    fmt = "n" =>
        \A p \in Positions :
            origin[p].tamper # "no_macs" => Len(batch[p].hmacs) = route - Len(path)

C6_Witness ==
    /\ fmt = "n" /\ route = 3 /\ path = <<1, 2>>
    /\ Len(batch) >= 1
    /\ Len(batch[1].hmacs) = 1

\* the hop the last relay call stands for: the call that forwarded the batch
\* is the last of the path, a call that raised or delivered comes after it
HopOfLastCall == IF pc = "transit" THEN Len(path) ELSE Len(path) + 1

\* C7: at every hop i served by relay i of the cascade, the shared element
\* the relay computes from the incoming public key is the one the client
\* computed with its private key of hop i, and the public key the relay
\* computes for the next hop is the client's private key of hop i + 1,
\* blinding_factor_i * private_key_i, times the generator.
C7_BlindingIdentity ==
    ( /\ fmt = "n"
      /\ relayLog.relay # 0
      /\ relayLog.relay = HopOfLastCall
      /\ HopOfLastCall <= route ) =>
        \A p \in 1..Len(relayLog.log) :
            relayLog.log[p].shared # NotAPoint =>
                /\ relayLog.log[p].shared =
                      ClientSharedElement(Cascade(route), origin[p].private_key, HopOfLastCall)
                /\ relayLog.log[p].forward_key =
                      pt_mul(ClientPrivateKey(Cascade(route), origin[p].private_key,
                                              HopOfLastCall + 1), Generator)

C7_Witness ==
    /\ fmt = "n" /\ route = 3
    /\ relayLog.relay = 3 /\ HopOfLastCall = 3
    /\ pc = "done"
    /\ Len(relayLog.log) = 2
    /\ relayLog.log[2].shared # NotAPoint
    /\ relayLog.log[1].shared # relayLog.log[2].shared

\* C8: a message whose MAC list is empty is rejected by mix_server_n_hop with
\* the exception "Malformed input message".
C8_EmptyMacListMalformed ==
    \A p \in 1..Len(relayLog.log) :
        (fmt = "n" /\ pc = "failed" /\ check_point(batch[p].ec_public_key)
         /\ batch[p].hmacs = <<>>) =>
            relayLog.log[p].err = "Malformed input message"

\* C9: a message with an invalid point, a first MAC that is not 20 bytes, an
\* address ciphertext that is not 258 bytes or a message ciphertext that is
\* not 1002 bytes is rejected as malformed by either relay decoder before any
\* shared key is derived or MAC compared: it never yields the HMAC failure.
C9_ValidationFirst ==
    \A p \in 1..Len(relayLog.log) :
        (pc = "failed"
         /\ origin[p].tamper \in {"point", "mac_len", "address_len", "message_len"}) =>
            /\ relayLog.log[p].err = "Malformed input message"
            /\ relayLog.log[p].shared = NotAPoint

\* C10: both clients accept an address of exactly 256 bytes with a message of
\* exactly 1000 bytes, and a longer address or message is refused before an
\* ephemeral key is drawn: no message is ever made from it.
C10_ClientBounds ==
    /\ ClientNHopAccepts(Fill(AddressMax), Fill(MessageMax))
    /\ ClientOneHopAccepts(RelayPublic(1), Fill(AddressMax), Fill(MessageMax))
    /\ \A p \in Positions :
          /\ ByteLen(origin[p].address) <= AddressMax
          /\ ByteLen(origin[p].message) <= MessageMax
    /\ sampled = Len(origin)
    /\ pc = "collect" => Len(batch) = sampled

C10_Witness ==
    /\ fmt = "n" /\ pc = "collect"
    /\ Len(batch) = 1 /\ sampled = 1
    /\ ByteLen(origin[1].address) = AddressMax
    /\ ByteLen(origin[1].message) = MessageMax
    /\ err = "AssertionError"

\* C11: mix_server_one_hop given the one message mix_client_one_hop made for
\* its public key returns exactly [(address, message)], for the empty
\* address and for addresses and messages that end in zero bytes too: the
\* length prefix tells the payload from its padding.
C11_OneHopRoundTrip ==
    (fmt = "one" /\ TamperCount = 0 /\ Len(batch) = 1 /\ relayLog.relay = 1) =>
        /\ pc = "done"
        /\ out = <<Sent(1)>>

C11_Witness ==
    /\ fmt = "one" /\ pc = "done" /\ Len(batch) = 1
    /\ out = <<<<Bytes(<<1, 0>>), Bytes(<<5, 0>>)>>>>
    /\ ByteLen(out[1][1]) = 2

\* the keys and IVs of the cipher layers around a buffer, outermost first,
\* and the buffer inside them
RECURSIVE LayerKeys(_)
LayerKeys(t) == IF t.k = "enc" THEN <<t.key>> \o LayerKeys(t.body) ELSE <<>>

RECURSIVE LayerIvs(_)
LayerIvs(t) == IF t.k = "enc" THEN <<t.iv>> \o LayerIvs(t.body) ELSE <<>>

RECURSIVE LayerBody(_)
LayerBody(t) == IF t.k = "enc" THEN LayerBody(t.body) ELSE t

\* the bytes of a byte string, one by one
RawBytes(b) == b.v \o Zeros(b.pad)

\* the key material the sender of message p shares with hop i of the route
KeyMaterialOfHop(p, i) ==
    ClientKeyMaterial(Cascade(route), origin[p].private_key, i)

\* C12: a client-encoded n-hop message is wrapped under exactly the address
\* and message keys of its N hops; after k relays have forwarded it, its
\* address and message are the plaintext envelopes wrapped under exactly the
\* keys of hops k+1..N, outermost first; a relay called with final=True before
\* the last hop does not emit a decoded envelope.
C12_LayersPerHop ==
    (fmt = "n" /\ TamperCount = 0) =>
        /\ Len(path) <= route
        /\ \A p \in 1..Len(batch) :
              /\ LayerKeys(batch[p].address) =
                    [j \in 1..(route - Len(path)) |->
                        AddressKey(KeyMaterialOfHop(p, Len(path) + j))]
              /\ LayerKeys(batch[p].message) =
                    [j \in 1..(route - Len(path)) |->
                        MessageKey(KeyMaterialOfHop(p, Len(path) + j))]
              /\ LayerBody(batch[p].address) =
                    PackEnvelope(RawBytes(origin[p].address), AddressMax)
              /\ LayerBody(batch[p].message) =
                    PackEnvelope(RawBytes(origin[p].message), MessageMax)
        /\ pc = "done" =>
              \A p \in 1..Len(out) :
                  (out[p][1].k = "bytes" /\ out[p][2].k = "bytes")
                      <=> Len(path) + 1 = route

C12_Witness ==
    /\ fmt = "n" /\ TamperCount = 0 /\ route = 3
    /\ pc = "transit" /\ path = <<1>>
    /\ Len(batch) = 2
    /\ Len(LayerKeys(batch[1].address)) = 2
    /\ Len(LayerKeys(batch[2].message)) = 2

\* C13: the layers of a client-encoded n-hop message come off in cascade
\* order only: every relay that has forwarded the message was the next relay
\* of its route, and a relay other than the next one, given the message as
\* the client made it or as the relays before forwarded it, fails with
\* "HMAC check failure", forwards nothing and delivers nothing.
C13_CascadeOrderOnly ==
    fmt = "n" =>
        /\ \A k \in 1..Len(path) : path[k] = k
        /\ ( /\ TamperCount = 0
             /\ pc \in {"done", "failed"}
             /\ Len(path) < route
             /\ relayLog.relay # Len(path) + 1 ) =>
                /\ pc = "failed"
                /\ err = "HMAC check failure"
                /\ out = <<>>

C13_Witness ==
    /\ fmt = "n" /\ TamperCount = 0 /\ route = 3
    /\ path = <<1>> /\ relayLog.relay = 3 /\ relayLog.final
    /\ pc = "failed" /\ err = "HMAC check failure" /\ out = <<>>

\* the buffers of a message that one hop's keys encrypt: the MAC entries of
\* the later hops, then the address, then the message
HopBuffers(msg) == Tail(msg.hmacs) \o <<msg.address, msg.message>>

\* C14: in a message on its way to hop k+1, macs[0] is in the clear and entry
\* j >= 1 is the MAC of hop k+1+j under j layers, the layer of hop k+i keyed
\* with that hop's hmac_key and the IV of index j-i: the client encrypted
\* entry j of the later MACs under the IV of index j at every hop, and each
\* relay took its layer off with the same index. Address and message carry
\* the zero IV at every layer. No two buffers of one hop are encrypted under
\* the same (key, IV) pair.
C14_MacIvPositions ==
    (fmt = "n" /\ TamperCount = 0 /\ Len(path) < route) =>
        \A p \in 1..Len(batch) :
            LET msg  == batch[p]
                k    == Len(path)
                bufs == HopBuffers(msg)
            IN  /\ msg.hmacs # <<>>
                /\ msg.hmacs[1].k = "mac"
                /\ msg.hmacs[1].key = HmacKey(KeyMaterialOfHop(p, k + 1))
                /\ \A j \in 1..(Len(msg.hmacs) - 1) :
                      /\ LayerKeys(msg.hmacs[j + 1]) =
                            [i \in 1..j |-> HmacKey(KeyMaterialOfHop(p, k + i))]
                      /\ LayerIvs(msg.hmacs[j + 1]) =
                            [i \in 1..j |-> PositionIv(j - i)]
                      /\ LayerBody(msg.hmacs[j + 1]).k = "mac"
                      /\ LayerBody(msg.hmacs[j + 1]).key =
                            HmacKey(KeyMaterialOfHop(p, k + 1 + j))
                /\ \A i \in 1..Len(LayerIvs(msg.address)) :
                      LayerIvs(msg.address)[i] = ZeroIv
                /\ \A i \in 1..Len(LayerIvs(msg.message)) :
                      LayerIvs(msg.message)[i] = ZeroIv
                /\ \A a, b \in 1..Len(bufs) :
                      a # b => <<bufs[a].key, bufs[a].iv>> # <<bufs[b].key, bufs[b].iv>>

C14_Witness ==
    /\ fmt = "n" /\ TamperCount = 0 /\ route = 3
    /\ pc = "transit" /\ path = <<1>>
    /\ Len(batch) = 1
    /\ LayerIvs(batch[1].hmacs[2]) = <<PositionIv(0)>>
    /\ \E q \in 1..Len(relayLog.log) : relayLog.log[q].err = ""

\* a call of mix_server_n_hop has just returned a list
NHopReturned == fmt = "n" /\ ((pc' = "done" /\ pc # "done") \/ path' # path)

\* C15: whenever mix_server_n_hop returns a list for a batch, the list has
\* the length of the batch and its entry p is what the same relay, with the
\* same final flag, returns for message p given alone: the same position,
\* nothing taken from the other messages or from earlier calls.
C15_PerMessageInOrder ==
    [][ NHopReturned =>
          LET returned == IF pc' = "done" THEN out' ELSE batch'
          IN  /\ Len(returned) = Len(batch)
              /\ \A p \in 1..Len(batch) :
                    LET alone == mix_server_n_hop(RelayPrivate(relayLog'.relay),
                                                  <<batch[p]>>, relayLog'.final)
                    IN  alone.err = "" /\ alone.out = <<returned[p]>> ]_vars

C15_Witness ==
    /\ fmt = "n" /\ route = 2 /\ path = <<1>> /\ pc = "done"
    /\ Len(batch) = 2 /\ Len(out) = 2
    /\ out[1] # out[2]
    /\ out = [p \in Positions |-> Sent(p)]

\* what the two clients make of the payload and ephemeral key of message p,
\* for the one relay with public key RelayPublic(1)
AsOneHop(p) ==
    mix_client_one_hop(RelayPublic(1), RawBytes(origin[p].address),
                       RawBytes(origin[p].message), origin[p].private_key)

AsNHop(p) ==
    mix_client_n_hop(Cascade(1), RawBytes(origin[p].address),
                     RawBytes(origin[p].message), origin[p].private_key)

\* the same public key and ciphertexts, and the one-hop MAC as the only entry
SameWire(one, n) ==
    /\ n.ec_public_key = one.ec_public_key
    /\ n.address = one.address
    /\ n.message = one.message
    /\ n.hmacs = <<one.hmac>>

\* C16: the one-hop format is the n-hop format with one relay. For the same
\* ephemeral key, relay public key, address and message, the message of
\* mix_client_n_hop with a one-element key list has the public key, address
\* ciphertext and message ciphertext of the message of mix_client_one_hop and
\* a MAC list whose only entry is the one-hop MAC; mix_server_n_hop with
\* final=True returns for the one the pair mix_server_one_hop returns for the
\* other.
C16_OneHopIsNHopOfOne ==
    /\ (fmt = "one" /\ TamperCount = 0) =>
          /\ \A p \in 1..Len(batch) : SameWire(batch[p], AsNHop(p))
          /\ (pc = "done" /\ Len(batch) = 1) =>
                LET r == mix_server_n_hop(RelayPrivate(1), <<AsNHop(1)>>, TRUE)
                IN  r.err = "" /\ r.out = out
    /\ (fmt = "n" /\ route = 1 /\ TamperCount = 0 /\ path = <<>>) =>
          /\ \A p \in 1..Len(batch) : SameWire(AsOneHop(p), batch[p])
          /\ (pc = "done" /\ Len(batch) = 1) =>
                LET r == mix_server_one_hop(RelayPrivate(1), <<AsOneHop(1)>>)
                IN  r.err = "" /\ r.out = out

C16_Witness ==
    /\ fmt = "one" /\ TamperCount = 0 /\ pc = "done" /\ Len(batch) = 1
    /\ out = <<<<Bytes(<<>>), Bytes(<<5>>)>>>>
    /\ AsNHop(1).hmacs = <<batch[1].hmac>>
    /\ mix_server_n_hop(RelayPrivate(1), <<AsNHop(1)>>, TRUE).out = out

\* C17: every relay authenticates every field it is given. When one bit of a
\* later hop's MAC entry macs[j], j >= 1, of the address ciphertext or of the
\* message ciphertext is changed in a message on its way to relay k of its
\* route, after any number k-1 of relays forwarded it, relay k fails with
\* "HMAC check failure", returns nothing and forwards nothing.
C17_EveryFieldEveryHop ==
    \A p \in Positions :
        ( /\ fmt = "n"
          /\ origin[p].tamper \in {"later_mac", "address", "message"} ) =>
            /\ origin[p].at = Len(path)
            /\ ( /\ pc \in {"done", "failed"}
                 /\ Len(path) < route
                 /\ relayLog.relay = Len(path) + 1 ) =>
                    /\ pc = "failed"
                    /\ err = "HMAC check failure"
                    /\ out = <<>>

C17_Witness ==
    \E p \in Positions :
        /\ fmt = "n" /\ route = 3 /\ path = <<1>>
        /\ origin[p].tamper = "later_mac" /\ origin[p].at = 1
        /\ relayLog.relay = 2 /\ ~relayLog.final
        /\ pc = "failed" /\ err = "HMAC check failure" /\ out = <<>>

\* C18: whichever relay is called with final=True, every (address, message)
\* pair a relay returns for a client-encoded, untampered n-hop message is
\* the pair its sender gave the client.
C18_OnlyOriginalDelivered ==
    (fmt = "n" /\ TamperCount = 0 /\ pc = "done") =>
        \A p \in 1..Len(out) : out[p] = Sent(p)

\* the rounds of the trace in which the target is among the senders
TargetRounds == {i \in 1..Len(trace) : target \in Seen(trace[i][1])}

\* how often x is a receiver in those rounds
TimesReceived(x) ==
    Cardinality(UNION {{<<i, j>> : j \in {j \in 1..Len(trace[i][2]) : trace[i][2][j] = x}} :
                          i \in TargetRounds})

\* the trace without the rounds in which the target does not send
TargetRoundsOnly == SelectSeq(trace, LAMBDA round : target \in Seen(round[1]))

\* C19: analyze_trace(trace, n, target) returns at most n receivers, no two
\* the same, each a receiver of a round in which the target sends, in order
\* of non-increasing number of occurrences in those rounds; no receiver it
\* leaves out occurs more often in them than one it returns; and the result
\* is one the trace without the rounds of the other senders gives as well.
C19_MostCommonSuspects ==
    analysed =>
        /\ Len(suspects) <= target_number_of_friends
        /\ \A a, b \in 1..Len(suspects) : a # b => suspects[a] # suspects[b]
        /\ \A a \in 1..Len(suspects) : TimesReceived(suspects[a]) >= 1
        /\ \A a, b \in 1..Len(suspects) :
              a < b => TimesReceived(suspects[a]) >= TimesReceived(suspects[b])
        /\ \A x \in Users \ Seen(suspects) :
              \A a \in 1..Len(suspects) :
                  TimesReceived(x) <= TimesReceived(suspects[a])
        /\ suspects \in analyze_trace(TargetRoundsOnly, target_number_of_friends, target)

C19_Witness ==
    /\ analysed
    /\ target = 0 /\ target_number_of_friends = 2
    /\ trace = << <<<<0, 1>>, <<1, 2>>>>, <<<<1, 2>>, <<0, 1>>>>, <<<<0, 2>>, <<2, 2>>>> >>
    /\ suspects = <<2, 1>>

====
